---- MODULE Spec2Model ----
(***************************************************************************)
(* Flight-delay prediction service: the training entry point               *)
(* (challenge/train.py), the HTTP boundary (challenge/api.py) and the      *)
(* DelayModel facade both of them drive (challenge/model.py, modelled      *)
(* from its specification).                                                *)
(***************************************************************************)
EXTENDS Integers, Sequences, FiniteSets

(***************************************************************************)
(* Bounds of the model.                                                    *)
(***************************************************************************)
\* Longest training dataset (rows of data/data.csv) that is explored.
MaxRows == 2

\* Longest "flights" list of a /predict request that is explored.
MaxFlights == 2

\* The /predict requests that may be in flight in one serving process.
Requests == {"r1", "r2"}

(***************************************************************************)
(* challenge/api.py : the Flight schema and its validators.                *)
(***************************************************************************)
\* api.py:32, the closed list of airlines validate_opera accepts.
valid_airlines ==
    { "American Airlines", "Air Canada", "Air France", "Aeromexico",
      "Aerolineas Argentinas", "Austral", "Avianca", "Alitalia",
      "British Airways", "Copa Air", "Delta Air", "Gol Trans", "Iberia",
      "K.L.M.", "Qantas Airways", "United Airlines", "Grupo LATAM",
      "Sky Airline", "Latin American Wings", "Plus Ultra Lineas Aereas",
      "JetSmart SPA", "Oceanair Linhas Aereas", "Lacsa" }

\* A faulty variant of validate_mes: the upper bound is off by one.
validate_mes_off_by_one(v) == ~(v < 1 \/ v > 13)

\* api.py:18-22. TRUE when the validator returns v, FALSE when it raises.
validate_mes(v) == ~(v < 1 \/ v > 12)

\* api.py:24-28.
validate_tipovuelo(v) == v \in {"I", "N"}

\* api.py:30-35.
validate_opera(v) == v \in valid_airlines

\* api.py:13-35, pydantic's validation of one Flight: every field validator
\* must return.
Flight(f) ==
    /\ validate_opera(f.OPERA)
    /\ validate_tipovuelo(f.TIPOVUELO)
    /\ validate_mes(f.MES)

\* api.py:37-38, pydantic's validation of the request body: a list, possibly
\* empty, whose every element is a valid Flight.
PredictionRequest(flights) ==
    \A i \in 1..Len(flights) : Flight(flights[i])

\* api.py:40-45, the response the RequestValidationError handler builds.
validation_exception_handler ==
    [status_code |-> 400, predict |-> <<>>]

(***************************************************************************)
(* Inputs.                                                                 *)
(***************************************************************************)
\* The flight descriptors a client may send: two that every validator
\* accepts (at both ends of the month range) and four that differ from an
\* accepted one in a single field.
ValidFlights ==
    { [OPERA |-> "Grupo LATAM", TIPOVUELO |-> "I", MES |-> 1],
      [OPERA |-> "Sky Airline", TIPOVUELO |-> "N", MES |-> 12] }

InvalidFlights ==
    { [OPERA |-> "Grupo LATAM", TIPOVUELO |-> "I", MES |-> 0],
      [OPERA |-> "Sky Airline", TIPOVUELO |-> "N", MES |-> 13],
      [OPERA |-> "Grupo LATAM", TIPOVUELO |-> "X", MES |-> 1],
      [OPERA |-> "Fly Nowhere", TIPOVUELO |-> "N", MES |-> 12] }

Flights == ValidFlights \cup InvalidFlights

SeqsUpTo(S, n) == UNION { [1..k -> S] : k \in 0..n }

\* The bodies of a /predict request: lists of flights, of which at most one
\* is invalid, at any position.
Bodies ==
    { b \in SeqsUpTo(Flights, MaxFlights) :
        Cardinality({ i \in 1..Len(b) : b[i] \in InvalidFlights }) <= 1 }

\* The flights of the training table: they share the flag, so that an
\* indicator late in FeatureNames can outrank an earlier one, and none of
\* them is international.
TrainFlights ==
    { [OPERA |-> "Grupo LATAM", TIPOVUELO |-> "N", MES |-> 1],
      [OPERA |-> "Sky Airline", TIPOVUELO |-> "N", MES |-> 12] }

\* The rows of the training table: a flight and its delay in minutes, at
\* and just above the threshold, or with the delay fields missing.
Rows ==
    { [OPERA |-> f.OPERA, TIPOVUELO |-> f.TIPOVUELO, MES |-> f.MES,
       delayKnown |-> d.known, delayMinutes |-> d.minutes] :
         f \in TrainFlights,
         d \in { [known |-> TRUE, minutes |-> 15],
                 [known |-> TRUE, minutes |-> 16],
                 [known |-> FALSE, minutes |-> 0] } }

DataSets == SeqsUpTo(Rows, MaxRows)

(***************************************************************************)
(* challenge/model.py : FeatureEncoder.                                    *)
(***************************************************************************)
\* The one-hot indicators of the joint space carrier x flag x month, in the
\* fixed order that breaks ties of the ranking and that numbers them in the
\* persisted artifact.
FeatureNames ==
    << "OPERA_Grupo LATAM", "OPERA_Sky Airline", "TIPOVUELO_I",
       "TIPOVUELO_N", "MES_1", "MES_12" >>

\* Size of the feature vocabulary kept at training time (top-K).
TopK == 2

OperaColumn(v) ==
    CASE v = "Grupo LATAM" -> "OPERA_Grupo LATAM"
      [] v = "Sky Airline" -> "OPERA_Sky Airline"
      [] OTHER -> "OPERA_unseen"

TipoColumn(v) ==
    CASE v = "I" -> "TIPOVUELO_I"
      [] v = "N" -> "TIPOVUELO_N"
      [] OTHER -> "TIPOVUELO_unseen"

MesColumn(v) ==
    CASE v = 1 -> "MES_1"
      [] v = 12 -> "MES_12"
      [] OTHER -> "MES_unseen"

\* The indicators a record matches: exactly one per categorical dimension.
Dummies(rec) ==
    { OperaColumn(rec.OPERA), TipoColumn(rec.TIPOVUELO), MesColumn(rec.MES) }

\* One record against a fixed vocabulary: 1 where the record matches the
\* entry, else 0.
EncodeRecord(vocab, rec) ==
    [j \in 1..Len(vocab) |-> IF vocab[j] \in Dummies(rec) THEN 1 ELSE 0]

\* The feature matrix: one row per record, in order.
Encode(vocab, data) ==
    [i \in 1..Len(data) |-> EncodeRecord(vocab, data[i])]

RECURSIVE SumSeq(_)
SumSeq(s) == IF s = <<>> THEN 0 ELSE Head(s) + SumSeq(Tail(s))

\* Ranking criterion: the number of delayed records an indicator matches.
Score(name, data, labels) ==
    Cardinality({ i \in 1..Len(data) :
                    labels[i] = 1 /\ name \in Dummies(data[i]) })

\* Position of an indicator in FeatureNames.
FeatureIndex(name) ==
    CHOOSE j \in 1..Len(FeatureNames) : FeatureNames[j] = name

\* The best of a non-empty set of candidates: highest score, ties to the
\* indicator that comes first in FeatureNames.
Best(cands, data, labels) ==
    CHOOSE c \in cands :
        \A d \in cands :
            \/ Score(c, data, labels) > Score(d, data, labels)
            \/ /\ Score(c, data, labels) = Score(d, data, labels)
               /\ FeatureIndex(c) <= FeatureIndex(d)

RECURSIVE TopRanked(_, _, _, _)
TopRanked(cands, data, labels, k) ==
    IF k = 0 \/ cands = {}
    THEN <<>>
    ELSE LET b == Best(cands, data, labels)
         IN  <<b>> \o TopRanked(cands \ {b}, data, labels, k - 1)

\* Training time: the K best indicators among those the data exhibit.
SelectVocabulary(data, labels) ==
    TopRanked({ FeatureNames[j] : j \in 1..Len(FeatureNames) }
                 \cap UNION { Dummies(data[i]) : i \in 1..Len(data) },
              data, labels, TopK)

(***************************************************************************)
(* challenge/model.py : DelayLabeler, ImbalanceCorrector, Classifier.      *)
(***************************************************************************)
\* A flight is delayed when it leaves more than this many minutes late.
DelayThreshold == 15

\* DelayLabeler on a row whose delay is known.
GetLabel(row) == IF row.delayMinutes > DelayThreshold THEN 1 ELSE 0

\* The rows the labeler can label, in order (the others raise a
\* data-quality error and are skipped).
RECURSIVE Labelable(_)
Labelable(data) ==
    IF data = <<>> THEN <<>>
    ELSE IF Head(data).delayKnown
         THEN <<Head(data)>> \o Labelable(Tail(data))
         ELSE Labelable(Tail(data))

Count(labels, c) == Cardinality({ i \in 1..Len(labels) : labels[i] = c })

Max(a, b) == IF a >= b THEN a ELSE b

\* ImbalanceCorrector: per-class weights in the ratio of the inverse class
\* frequencies (class 1 weighs n0, class 0 weighs n1; an absent class
\* counts as one record).
ClassWeights(labels) ==
    [w0 |-> Max(Count(labels, 1), 1), w1 |-> Max(Count(labels, 0), 1)]

\* Classifier.fit: one signed weight per vocabulary entry, the weighted
\* count of delayed minus on-time records that match it.
ClassifierFit(features, labels, cw, width) ==
    [j \in 1..width |->
        SumSeq([i \in 1..Len(features) |->
                  features[i][j] * (IF labels[i] = 1 THEN cw.w1 ELSE 0 - cw.w0)])]

\* Classifier.predict on one row: delayed iff the matched weights sum to
\* more than zero.
PredictRow(params, row) ==
    IF SumSeq([j \in 1..Len(row) |-> row[j] * params[j]]) > 0 THEN 1 ELSE 0

ClassifierPredict(features, params) ==
    [i \in 1..Len(features) |-> PredictRow(params, features[i])]

(***************************************************************************)
(* challenge/model.py : the DelayModel facade.                             *)
(***************************************************************************)
\* DelayModel()._model before any fit or load.
None == [fitted |-> FALSE, vocab |-> <<>>, params |-> <<>>]

\* DelayModel(): Untrained, no vocabulary, no classifier.
DelayModel == [state |-> "Untrained", vocab |-> <<>>, _model |-> None]

\* preprocess(data) with no target column is inference mode.
NoTarget == "none"

\* DelayModel.preprocess.  With a target column: the labeler runs on every
\* row, the rows it cannot label are skipped, the vocabulary is selected
\* from the remaining rows and they are encoded against it.  Without one:
\* the records are encoded against the vocabulary of the TrainedModel, and
\* it is a precondition failure when there is none.
preprocess(m, data, target_column) ==
    IF target_column # NoTarget
    THEN LET rows   == Labelable(data)
             labels == [i \in 1..Len(rows) |-> GetLabel(rows[i])]
             vocab  == SelectVocabulary(rows, labels)
         IN  [ok |-> TRUE, model |-> [m EXCEPT !.vocab = vocab],
              features |-> Encode(vocab, rows), target |-> labels,
              labeled |-> Len(data)]
    ELSE IF m.state = "Untrained"
         THEN [ok |-> FALSE, model |-> m, features |-> <<>>,
               target |-> <<>>, labeled |-> 0]
         ELSE [ok |-> TRUE, model |-> m,
               features |-> Encode(m._model.vocab, data),
               target |-> <<>>, labeled |-> 0]

\* DelayModel.fit: ImbalanceCorrector, then Classifier.fit; the model becomes
\* Trained and its TrainedModel bundles the parameters with the vocabulary
\* the training-mode preprocess selected.
fit(m, features, target) ==
    [m EXCEPT !.state = "Trained",
              !._model = [fitted |-> TRUE, vocab |-> m.vocab,
                          params |-> ClassifierFit(features, target,
                                                   ClassWeights(target),
                                                   Len(m.vocab))]]

\* DelayModel.predict: a fatal usage error unless Trained or Loaded.
predict(m, features) ==
    IF m.state \in {"Trained", "Loaded"}
    THEN [ok |-> TRUE, labels |-> ClassifierPredict(features, m._model.params)]
    ELSE [ok |-> FALSE, labels |-> <<>>]

(***************************************************************************)
(* Persistence: joblib.dump in train.py, and the load that brings the      *)
(* artifact into a fresh process.                                          *)
(***************************************************************************)
\* No file at challenge/model.joblib.
NoFile == <<>>

\* A faulty variant of joblib_dump: only the classifier parameters are written.
joblib_dump_params_only(obj) ==
    IF ~obj.fitted THEN <<0>> ELSE <<1, 0>> \o obj.params

\* A faulty variant of joblib_dump: the classifier parameters are written as
\* unsigned numbers, so a negative weight loses its sign.
joblib_dump_unsigned(obj) ==
    IF ~obj.fitted
    THEN <<0>>
    ELSE <<1, Len(obj.vocab)>>
            \o [j \in 1..Len(obj.vocab) |-> FeatureIndex(obj.vocab[j])]
            \o [j \in 1..Len(obj.params) |->
                  IF obj.params[j] < 0 THEN 0 - obj.params[j]
                  ELSE obj.params[j]]

\* train.py:20, joblib.dump(model._model, ...): the object as a flat file.
\* A tag (0 for None), the vocabulary size, the vocabulary entries by their
\* number, then the classifier parameters.
joblib_dump(obj) ==
    IF ~obj.fitted
    THEN <<0>>
    ELSE <<1, Len(obj.vocab)>>
            \o [j \in 1..Len(obj.vocab) |-> FeatureIndex(obj.vocab[j])]
            \o obj.params

\* The inverse of joblib_dump, reading the file back field by field.
joblib_load(file) ==
    IF file[1] = 0
    THEN None
    ELSE LET k == file[2]
         IN  [fitted |-> TRUE,
              vocab  |-> [j \in 1..k |-> FeatureNames[file[2 + j]]],
              params |-> [j \in 1..(Len(file) - 2 - k) |-> file[2 + k + j]]]

\* Deserializing the artifact into a DelayModel: it becomes Loaded when the
\* file holds a TrainedModel, and stays as it was when it holds None.
load(m, file) ==
    LET obj == joblib_load(file)
    IN  IF obj.fitted
        THEN [state |-> "Loaded", vocab |-> obj.vocab, _model |-> obj]
        ELSE m

(***************************************************************************)
(* State.                                                                  *)
(***************************************************************************)
VARIABLES
    tpc,        \* train.py: the line train_and_save has reached
    tdata,      \* train.py:8   data
    tmodel,     \* train.py:11  model
    tfeatures,  \* train.py:14  features
    ttarget,    \* train.py:14  target
    tlabeled,   \* rows the labeler was invoked on by train.py:14
    disk,       \* the file challenge/model.joblib
    spc,        \* api.py: "down" before the module is imported, then "up"
    smodel,     \* api.py:11    model, shared by every request
    reqs        \* the /predict requests of the serving process

tvars == <<tpc, tdata, tmodel, tfeatures, ttarget, tlabeled>>
svars == <<spc, smodel, reqs>>
vars == <<tpc, tdata, tmodel, tfeatures, ttarget, tlabeled, disk,
          spc, smodel, reqs>>

\* A request nobody has sent yet.
Idle ==
    [pc |-> "idle", flights |-> <<>>, features |-> <<>>, core |-> <<>>,
     labeled |-> 0, servedBy |-> "none",
     response |-> [status_code |-> 0, predict |-> <<>>]]

Init ==
    /\ tpc = "start"
    /\ tdata = <<>>
    /\ tmodel = DelayModel
    /\ tfeatures = <<>>
    /\ ttarget = <<>>
    /\ tlabeled = 0
    /\ disk = NoFile
    /\ spc = "down"
    /\ smodel = DelayModel
    /\ reqs = [r \in Requests |-> Idle]

(***************************************************************************)
(* challenge/train.py : train_and_save, one action per statement.          *)
(***************************************************************************)
\* train.py:8
TrainLoadData ==
    /\ tpc = "start"
    /\ \E d \in DataSets : tdata' = d
    /\ tpc' = "loaded"
    /\ UNCHANGED <<tmodel, tfeatures, ttarget, tlabeled, disk, svars>>

\* train.py:11
TrainInit ==
    /\ tpc = "loaded"
    /\ tmodel' = DelayModel
    /\ tpc' = "init"
    /\ UNCHANGED <<tdata, tfeatures, ttarget, tlabeled, disk, svars>>

\* A faulty variant of TrainTargetColumn: train.py calls preprocess as api.py does,
\* with no target column.
TrainTargetColumnMissing == NoTarget

\* train.py:14, target_column="delay".
TrainTargetColumn == "delay"

\* train.py:14, preprocess returns.
TrainPreprocess ==
    /\ tpc = "init"
    /\ LET r == preprocess(tmodel, tdata, TrainTargetColumn)
       IN  /\ tmodel' = r.model
           /\ tfeatures' = r.features
           /\ ttarget' = r.target
           /\ tlabeled' = r.labeled
    /\ tpc' = "preprocessed"
    /\ UNCHANGED <<tdata, disk, svars>>

\* train.py:14, preprocess raises the labeler's data-quality error instead
\* of skipping the row; nothing catches it and the process ends, its locals
\* with it.
TrainPreprocessFail ==
    /\ tpc = "init"
    /\ \E i \in 1..Len(tdata) : ~tdata[i].delayKnown
    /\ tpc' = "failed_preprocess"
    /\ tdata' = <<>>
    /\ UNCHANGED <<tmodel, tfeatures, ttarget, tlabeled, disk, svars>>

\* train.py:17, the model after model.fit(features, target).
TrainFitResult(m, features, target) == fit(m, features, target)

\* train.py:17, fit returns.
TrainFit ==
    /\ tpc = "preprocessed"
    /\ tmodel' = TrainFitResult(tmodel, tfeatures, ttarget)
    /\ tpc' = "fitted"
    /\ UNCHANGED <<tdata, tfeatures, ttarget, tlabeled, disk, svars>>

\* train.py:17, the process is interrupted or fit raises: the partial fit
\* and the locals are lost with the process.
TrainFitFail ==
    /\ tpc = "preprocessed"
    /\ tpc' = "failed_fit"
    /\ tmodel' = DelayModel
    /\ tdata' = <<>>
    /\ tfeatures' = <<>>
    /\ ttarget' = <<>>
    /\ tlabeled' = 0
    /\ UNCHANGED <<disk, svars>>

\* A faulty variant of SavePoint: the dump runs before fit.
SavePointEarly == "preprocessed"

\* train.py:19-20 come after train.py:17.
SavePoint == "fitted"

\* train.py:20
TrainSave ==
    /\ tpc = SavePoint
    /\ disk' = joblib_dump(tmodel._model)
    /\ tpc' = "saved"
    /\ UNCHANGED <<tdata, tmodel, tfeatures, ttarget, tlabeled, svars>>

\* train.py:21-24, train_and_save returns and the process exits: its locals
\* go, the model it held is kept here as the in-memory original.
TrainExit ==
    /\ tpc = "saved"
    /\ tpc' = "exited"
    /\ tdata' = <<>>
    /\ tfeatures' = <<>>
    /\ ttarget' = <<>>
    /\ tlabeled' = 0
    /\ UNCHANGED <<tmodel, disk, svars>>

TrainOver == tpc \in {"exited", "failed_preprocess", "failed_fit"}

(***************************************************************************)
(* challenge/api.py : the serving process.                                 *)
(***************************************************************************)
\* api.py:10-11, the module is imported: one DelayModel() for the process.
\* Serving starts once the offline training run is over.
ServeStart ==
    /\ spc = "down"
    /\ TrainOver
    /\ spc' = "up"
    /\ smodel' = DelayModel
    /\ UNCHANGED <<tvars, disk, reqs>>

\* The artifact is deserialized into the serving process's model.
ServeLoad ==
    /\ spc = "up"
    /\ smodel.state = "Untrained"
    /\ disk # NoFile
    /\ smodel' = load(smodel, disk)
    /\ smodel' # smodel
    /\ UNCHANGED <<tvars, disk, spc, reqs>>

\* api.py:37-45, a /predict request arrives and FastAPI validates its body
\* against PredictionRequest before any handler runs: a body that fails is
\* answered by validation_exception_handler, one that passes waits for
\* post_predict.
ReceiveRequest(r) ==
    /\ spc = "up"
    /\ reqs[r].pc = "idle"
    /\ \E body \in Bodies :
         reqs' = [reqs EXCEPT ![r] =
                    IF PredictionRequest(body)
                    THEN [Idle EXCEPT !.pc = "validated", !.flights = body]
                    ELSE [Idle EXCEPT !.pc = "responded", !.flights = body,
                                      !.response = validation_exception_handler]]
    /\ UNCHANGED <<tvars, disk, spc, smodel>>

\* The response to an exception no handler catches.
InternalServerError == [status_code |-> 500, predict |-> <<>>]

\* A faulty variant of post_predict: the handler preprocesses in training mode, as
\* train.py does, so every request selects a vocabulary and fits anew.
post_predict_retrain(m, flights) ==
    LET rows == [i \in 1..Len(flights) |->
                   [OPERA |-> flights[i].OPERA,
                    TIPOVUELO |-> flights[i].TIPOVUELO,
                    MES |-> flights[i].MES,
                    delayKnown |-> TRUE, delayMinutes |-> 16]]
        pre == preprocess(m, rows, "delay")
        fitted == fit(pre.model, pre.features, pre.target)
        out == predict(fitted, pre.features)
    IN  [model |-> fitted, features |-> pre.features,
         core |-> <<"preprocess", "fit", "predict">>, labeled |-> pre.labeled,
         response |-> [status_code |-> 200, predict |-> out.labels]]

\* A faulty variant of post_predict: the handler fits the shared model on the request
\* and its own predictions after answering it.
post_predict_refit(m, flights) ==
    LET pre == preprocess(m, flights, NoTarget)
        out == predict(m, pre.features)
    IN  IF ~pre.ok \/ ~out.ok
        THEN [model |-> m, features |-> <<>>,
              core |-> <<"preprocess">>, labeled |-> 0,
              response |-> InternalServerError]
        ELSE [model |-> fit(m, pre.features, out.labels),
              features |-> pre.features,
              core |-> <<"preprocess", "predict", "fit">>, labeled |-> 0,
              response |-> [status_code |-> 200, predict |-> out.labels]]

\* A faulty variant of post_predict: a flight that matches nothing the model
\* knows is refused as a bad request.
post_predict_reject_unseen(m, flights) ==
    LET pre == preprocess(m, flights, NoTarget)
        out == predict(m, pre.features)
    IN  IF ~pre.ok \/ ~out.ok
        THEN [model |-> m, features |-> <<>>,
              core |-> <<"preprocess">>, labeled |-> 0,
              response |-> InternalServerError]
        ELSE [model |-> m, features |-> pre.features,
              core |-> <<"preprocess", "predict">>, labeled |-> 0,
              response |->
                  IF \E i \in 1..Len(pre.features) :
                         \A j \in 1..Len(pre.features[i]) :
                             pre.features[i][j] = 0
                  THEN [status_code |-> 400, predict |-> <<>>]
                  ELSE [status_code |-> 200, predict |-> out.labels]]

\* A faulty variant of post_predict: an error of the core is answered with a default
\* prediction of 0 per flight.
post_predict_default(m, flights) ==
    LET pre == preprocess(m, flights, NoTarget)
        out == predict(m, pre.features)
    IN  [model |-> m, features |-> pre.features,
         core |-> <<"preprocess", "predict">>, labeled |-> 0,
         response |-> [status_code |-> 200,
                       predict |-> IF pre.ok /\ out.ok THEN out.labels
                                   ELSE [i \in 1..Len(flights) |-> 0]]]

\* A faulty variant of post_predict: the predictions are returned sorted.
post_predict_sorted(m, flights) ==
    LET pre == preprocess(m, flights, NoTarget)
        out == predict(pre.model, pre.features)
        n == Len(out.labels)
        zeros == Cardinality({ i \in 1..n : out.labels[i] = 0 })
    IN  IF ~pre.ok \/ ~out.ok
        THEN [model |-> pre.model, features |-> pre.features,
              core |-> <<"preprocess">>, labeled |-> pre.labeled,
              response |-> InternalServerError]
        ELSE [model |-> pre.model, features |-> pre.features,
              core |-> <<"preprocess", "predict">>, labeled |-> pre.labeled,
              response |-> [status_code |-> 200,
                            predict |-> [i \in 1..n |->
                                           IF i <= zeros THEN 0 ELSE 1]]]

\* api.py:53-58, post_predict on a validated request: the flights as a table
\* (55), preprocess in inference mode (56), predict (57), the predictions
\* as the body of a 200 (58).  An exception of the core leaves the handler
\* and the client gets a 500.
post_predict(m, flights) ==
    LET pre == preprocess(m, flights, NoTarget)
    IN  IF ~pre.ok
        THEN [model |-> pre.model, features |-> <<>>,
              core |-> <<"preprocess">>, labeled |-> pre.labeled,
              response |-> InternalServerError]
        ELSE LET out == predict(pre.model, pre.features)
             IN  [model |-> pre.model, features |-> pre.features,
                  core |-> <<"preprocess", "predict">>,
                  labeled |-> pre.labeled,
                  response |-> IF out.ok
                               THEN [status_code |-> 200,
                                     predict |-> out.labels]
                               ELSE InternalServerError]

\* api.py:53-58 for request r.  The handler is an async function with no
\* await in it: it runs to its return without yielding to another request.
PostPredict(r) ==
    /\ spc = "up"
    /\ reqs[r].pc = "validated"
    /\ LET res == post_predict(smodel, reqs[r].flights)
       IN  /\ smodel' = res.model
           /\ reqs' = [reqs EXCEPT ![r] =
                         [@ EXCEPT !.pc = "responded",
                                   !.features = res.features,
                                   !.core = res.core,
                                   !.labeled = res.labeled,
                                   !.servedBy = smodel.state,
                                   !.response = res.response]]
    /\ UNCHANGED <<tvars, disk, spc>>

(***************************************************************************)
(* Specification.                                                          *)
(***************************************************************************)
Next ==
    \/ TrainLoadData
    \/ TrainInit
    \/ TrainPreprocess
    \/ TrainPreprocessFail
    \/ TrainFit
    \/ TrainFitFail
    \/ TrainSave
    \/ TrainExit
    \/ ServeStart
    \/ ServeLoad
    \/ \E r \in Requests : ReceiveRequest(r)
    \/ \E r \in Requests : PostPredict(r)

Spec == Init /\ [][Next]_vars

(***************************************************************************)
(* Properties.                                                             *)
(***************************************************************************)
\* Request r has been answered.
Responded(r) == reqs[r].pc = "responded"

\* Request r has been answered by post_predict.
Handled(r) == Responded(r) /\ reqs[r].core # <<>>

\* A flight with a field outside its domain, stated on the fields.
OutOfDomain(f) ==
    \/ f.MES \notin 1..12
    \/ f.TIPOVUELO \notin {"I", "N"}
    \/ f.OPERA \notin valid_airlines

HasInvalid(flights) == \E i \in 1..Len(flights) : OutOfDomain(flights[i])

\* preprocess then predict on a record set, as one inference.
Infer(m, data) ==
    LET pre == preprocess(m, data, NoTarget)
    IN  IF pre.ok THEN predict(pre.model, pre.features)
        ELSE [ok |-> FALSE, labels |-> <<>>]

\* The prediction for one flight on its own.
PredictOne(m, f) == Infer(m, <<f>>).labels[1]

Zeros(n) == [j \in 1..n |-> 0]

\* A record that matches no entry of the vocabulary.
Unseen(f, vocab) == \A j \in 1..Len(vocab) : vocab[j] \notin Dummies(f)

\* C1: a /predict request with at least one flight whose MES is outside
\* 1..12, whose TIPOVUELO is outside {I, N} or whose OPERA is not a known
\* airline is answered 400 as a whole, and neither preprocess nor predict is
\* invoked for it: none of its records reaches the core.
C1_InvalidRequestRejected ==
    \A r \in Requests :
        (reqs[r].pc # "idle" /\ HasInvalid(reqs[r].flights)) =>
            /\ Responded(r)
            /\ reqs[r].response.status_code = 400
            /\ reqs[r].response.predict = <<>>
            /\ reqs[r].core = <<>>
            /\ reqs[r].features = <<>>

\* A request of two flights, the first valid and the second not, has been
\* rejected.
C1_Witness ==
    \E r \in Requests :
        /\ Responded(r)
        /\ Len(reqs[r].flights) = 2
        /\ ~OutOfDomain(reqs[r].flights[1])
        /\ OutOfDomain(reqs[r].flights[2])
        /\ reqs[r].response.status_code = 400

\* C2: predictions are returned only by a model that is Trained or Loaded; a
\* request post_predict handles while the shared model is Untrained (no fit,
\* no load since DelayModel()) ends in the fatal error and returns no
\* prediction.
C2_PredictOnlyWhenTrained ==
    \A r \in Requests :
        Handled(r) =>
            /\ reqs[r].response.status_code = 200 =>
                   reqs[r].servedBy \in {"Trained", "Loaded"}
            /\ reqs[r].servedBy = "Untrained" =>
                   /\ reqs[r].response.status_code = 500
                   /\ reqs[r].response.predict = <<>>

\* A valid, non-empty request has been handled by the Untrained model while
\* the artifact was on disk, and got the error.
C2_Witness ==
    \E r \in Requests :
        /\ Handled(r)
        /\ reqs[r].servedBy = "Untrained"
        /\ Len(reqs[r].flights) > 0
        /\ disk # NoFile
        /\ reqs[r].response.status_code = 500

\* C3: whenever train.py has written the artifact, the file holds both the
\* fitted classifier parameters and the ordered vocabulary fixed at training
\* time, one parameter per vocabulary entry; no file holds parameters
\* without the vocabulary.
C3_ArtifactHoldsVocabulary ==
    disk # NoFile =>
        LET obj == joblib_load(disk)
        IN  /\ obj.fitted
            /\ obj.vocab = tmodel.vocab
            /\ obj.params = tmodel._model.params
            /\ Len(obj.params) = Len(obj.vocab)

\* An artifact with a full vocabulary and a non-zero parameter is on disk.
C3_Witness ==
    /\ disk # NoFile
    /\ Len(tmodel.vocab) = TopK
    /\ \E j \in 1..Len(tmodel._model.params) : tmodel._model.params[j] # 0

C5_Shape ==
    /\ smodel.state = "Loaded" => smodel._model.vocab = tmodel._model.vocab
    /\ \A r \in Requests :
           Handled(r) /\ reqs[r].servedBy # "Untrained" =>
               /\ Len(reqs[r].features) = Len(reqs[r].flights)
               /\ \A i \in 1..Len(reqs[r].flights) :
                      /\ Len(reqs[r].features[i]) = Len(tmodel._model.vocab)
                      /\ \A j \in 1..Len(tmodel._model.vocab) :
                             reqs[r].features[i][j] = 1 <=>
                                 tmodel._model.vocab[j]
                                     \in Dummies(reqs[r].flights[i])

\* The step part of C5: no step changes the vocabulary of a model that is
\* Trained or Loaded.
C5_Frozen ==
    /\ smodel.state \in {"Trained", "Loaded"} =>
           smodel'._model.vocab = smodel._model.vocab
    /\ tmodel.state \in {"Trained", "Loaded"} =>
           tmodel'._model.vocab = tmodel._model.vocab

\* C5: the vocabulary is fixed at training time and never changes: once a
\* model is Trained or Loaded no preprocess or predict call changes it, and
\* every inference-mode preprocess returns one row per record with the
\* columns, in number and order, of the vocabulary fixed at training time.
C5_VocabularyFixed == [](C5_Shape) /\ [][C5_Frozen]_vars

\* Two requests of different lengths have been handled by a model loaded
\* with a full vocabulary whose order is not that of FeatureNames.
C5_Witness ==
    /\ smodel.state = "Loaded"
    /\ Len(smodel._model.vocab) = TopK
    /\ FeatureIndex(smodel._model.vocab[1]) > FeatureIndex(smodel._model.vocab[2])
    /\ \A r \in Requests : Handled(r) /\ reqs[r].servedBy = "Loaded"
    /\ Len(reqs["r1"].flights) = 1
    /\ Len(reqs["r2"].flights) = 2

\* C6 as claimed: every accepted /predict request with n flights is answered
\* with a predict list of n entries, each 0 or 1.
C6_Original ==
    \A r \in Requests :
        Handled(r) =>
            /\ Len(reqs[r].response.predict) = Len(reqs[r].flights)
            /\ \A i \in 1..Len(reqs[r].response.predict) :
                   reqs[r].response.predict[i] \in {0, 1}

\* C6, amended: every accepted /predict request with n flights that
\* post_predict handles while the shared model is Trained or Loaded is
\* answered 200 with a predict list of n entries, each the integer 0 or 1,
\* entry i being the prediction for flight i; only such requests are
\* answered 200.
C6_OnePredictionPerFlight ==
    \A r \in Requests :
        Handled(r) =>
            /\ reqs[r].response.status_code = 200 <=>
                   reqs[r].servedBy \in {"Trained", "Loaded"}
            /\ reqs[r].response.status_code = 200 =>
                   /\ Len(reqs[r].response.predict) = Len(reqs[r].flights)
                   /\ \A i \in 1..Len(reqs[r].flights) :
                          /\ reqs[r].response.predict[i] \in {0, 1}
                          /\ reqs[r].response.predict[i] =
                                 PredictOne(smodel, reqs[r].flights[i])

\* A request of two flights with different predictions, the delayed one
\* first, has been answered.
C6_Witness ==
    \E r \in Requests :
        /\ Handled(r)
        /\ reqs[r].response.status_code = 200
        /\ reqs[r].response.predict = <<1, 0>>

\* C7: a record that matches no entry of the frozen vocabulary is encoded,
\* without error, as a row of zeros, and predict on it returns 0 or 1: for
\* every flight descriptor given to a Loaded model, inside or outside the
\* domain the boundary accepts, and for every flight of a handled request.
C7_UnseenEncodesToZeros ==
    smodel.state = "Loaded" =>
        /\ \A f \in Flights :
               Unseen(f, smodel._model.vocab) =>
                   LET pre == preprocess(smodel, <<f>>, NoTarget)
                   IN  /\ pre.ok
                       /\ pre.features = <<Zeros(Len(smodel._model.vocab))>>
                       /\ predict(pre.model, pre.features).ok
                       /\ predict(pre.model, pre.features).labels[1] \in {0, 1}
        /\ \A r \in Requests :
               Handled(r) /\ reqs[r].servedBy = "Loaded" =>
                   \A i \in 1..Len(reqs[r].flights) :
                       Unseen(reqs[r].flights[i], smodel._model.vocab) =>
                           /\ reqs[r].response.status_code = 200
                           /\ reqs[r].features[i] =
                                  Zeros(Len(smodel._model.vocab))
                           /\ reqs[r].response.predict[i] \in {0, 1}

\* A handled request holds a flight that matches nothing of a full
\* vocabulary, next to one that matches.
C7_Witness ==
    /\ smodel.state = "Loaded"
    /\ Len(smodel._model.vocab) = TopK
    /\ \E r \in Requests :
           /\ Handled(r)
           /\ reqs[r].response.status_code = 200
           /\ Len(reqs[r].flights) = 2
           /\ Unseen(reqs[r].flights[1], smodel._model.vocab)
           /\ ~Unseen(reqs[r].flights[2], smodel._model.vocab)

\* The state part of C8: the serving model is never fitted, no handler
\* invoked fit, and every answered request holds the predictions it would
\* get alone from a fresh model loaded from the artifact on disk.
C8_Alone ==
    /\ smodel.state # "Trained"
    /\ \A r \in Requests :
           Handled(r) =>
               /\ \A k \in 1..Len(reqs[r].core) : reqs[r].core[k] # "fit"
               /\ reqs[r].response.status_code = 200 =>
                      reqs[r].response.predict =
                          Infer(load(DelayModel, disk), reqs[r].flights).labels

\* The step part of C8: while the service is up no step writes the artifact
\* on disk, and no step changes a Loaded model.
C8_ReadOnly ==
    spc = "up" =>
        /\ disk' = disk
        /\ smodel.state = "Loaded" => smodel' = smodel

\* C8: under any interleaving of /predict requests on the shared model, no
\* handler writes the TrainedModel (parameters or vocabulary) and no fit
\* occurs in the serving process, so each request gets the predictions it
\* would get alone against the same artifact.
C8_ConcurrentReadsOnly == [](C8_Alone) /\ [][C8_ReadOnly]_vars

\* One request has been answered by the Loaded model while another,
\* different one waits for its handler.
C8_Witness ==
    /\ smodel.state = "Loaded"
    /\ Handled("r1")
    /\ reqs["r1"].response.status_code = 200
    /\ Len(reqs["r1"].flights) = 2
    /\ reqs["r2"].pc = "validated"
    /\ reqs["r2"].flights # reqs["r1"].flights
    /\ Len(reqs["r2"].flights) = 2

\* C9: labels are derived only in training mode: train.py's preprocess
\* invokes the labeler on every row and returns, for every row with a
\* delay, 1 exactly when the delay exceeds 15 minutes (15 itself gives 0);
\* api.py's preprocess returns features only and invokes no labeler.
C9_LabelOnlyInTraining ==
    /\ tpc \in {"preprocessed", "fitted", "saved"} =>
           LET rows == Labelable(tdata)
           IN  /\ tlabeled = Len(tdata)
               /\ Len(ttarget) = Len(rows)
               /\ Len(tfeatures) = Len(rows)
               /\ \A i \in 1..Len(rows) :
                      /\ ttarget[i] \in {0, 1}
                      /\ ttarget[i] = 1 <=> rows[i].delayMinutes > 15
                      /\ rows[i].delayMinutes = 15 => ttarget[i] = 0
    /\ \A r \in Requests : reqs[r].labeled = 0

\* train.py's preprocess has returned labels for a row delayed by exactly
\* 15 minutes and a row delayed by 16.
C9_Witness ==
    /\ tpc = "preprocessed"
    /\ Len(tdata) = 2
    /\ tdata[1].delayKnown /\ tdata[1].delayMinutes = 15
    /\ tdata[2].delayKnown /\ tdata[2].delayMinutes = 16
    /\ ttarget = <<0, 1>>

\* C10: train_and_save runs preprocess(target_column="delay"), then fit, then
\* the dump: a file exists only once fit has returned, on the features and
\* labels that preprocess call returned for the data read, and it is the
\* dump of the fitted model; when preprocess or fit fails, and at every
\* earlier line, no file exists.
C10_PersistAfterFit ==
    /\ disk # NoFile =>
           /\ tpc \in {"saved", "exited"}
           /\ tmodel.state = "Trained"
           /\ tmodel._model.fitted
           /\ disk = joblib_dump(tmodel._model)
    /\ tpc = "saved" =>
           LET pre == preprocess(DelayModel, tdata, "delay")
           IN  /\ disk # NoFile
               /\ tfeatures = pre.features
               /\ ttarget = pre.target
               /\ tmodel = fit(pre.model, pre.features, pre.target)
    /\ tpc \notin {"saved", "exited"} => disk = NoFile

\* The dump has been written after a fit on two rows.
C10_Witness ==
    /\ tpc = "saved"
    /\ disk # NoFile
    /\ Len(tfeatures) = 2

====
